---------------------------- MODULE Spec2Model ----------------------------
(***************************************************************************)
(* Apple DOS 3.3 disk-image decoders of a2fs.                              *)
(*                                                                         *)
(* The repository holds two decoders of the same on-disk format:           *)
(*   impl = "dos33fs"  AppleDOS33Disk / AppleDOS33FS  (src/a2fs/dos33fs.py)*)
(*   impl = "main"     AppleDOSFS                     (src/a2fs/main.py)   *)
(* Both are modelled, each from its own code.  A disk image is a byte      *)
(* string; it is kept sparsely (offset -> byte, absent offsets read 0).    *)
(* Catalog and T/S-list traversals advance one loop iteration per step, so *)
(* that a traversal that never ends is an infinite behaviour.              *)
(***************************************************************************)
EXTENDS Integers, Sequences, FiniteSets, TLC

VARIABLES
  impl,        \* which decoder class is constructed
  image_len,   \* length of the image file in bytes
  image_data,  \* the image bytes: [offset -> byte], offsets not listed hold 0
  pc,          \* "new" | "catalog" | "ready" | "failed" | "tslist"
  track,       \* catalog loop: current catalog track
  sector,      \* catalog loop: current catalog sector
  files,       \* the directory: [name -> entry]
  req,         \* the request being served while pc = "tslist"
  ts_track,    \* T/S-list loop: current list track
  ts_sector,   \* T/S-list loop: current list sector
  sectors,     \* dos33fs _read_tslist: data-sector addresses gathered so far
  data,        \* assembled file bytes of the request in progress / just served
  fd_counter,  \* dos33fs: last file handle issued
  open_files,  \* dos33fs: [handle -> bytes]
  result,      \* reply of the most recently completed call
  walked,          \* observation: names whose T/S list has been walked
  catalog_visited, \* observation: catalog sectors read so far, in order
  tslist_visited   \* observation: T/S-list sectors the walk in progress has read

vars == <<impl, image_len, image_data, pc, track, sector, files, req, ts_track,
          ts_sector, sectors, data, fd_counter, open_files, result, walked,
          catalog_visited, tslist_visited>>

---------------------------------------------------------------------------
(* Program constants *)

SECTOR_SIZE == 256
SECTORS_PER_TRACK == 16
TRACKS == 35
VTOC_TRACK == 17
VTOC_SECTOR == 0
CATALOG_TRACK == 17
CATALOG_SECTOR == 15

\* expected_size = SECTOR_SIZE * SECTORS_PER_TRACK * TRACKS
expected_size == SECTOR_SIZE * SECTORS_PER_TRACK * TRACKS

(* Bounds of the model *)

\* The T/S-list walk gathers at most this many data sectors before the
\* interpreter's memory is taken to be exhausted (only a cyclic list gets there).
MaxSectors == 4
\* Handles issued by open() in one run.
MaxFd == 2

---------------------------------------------------------------------------
(* Bytes *)

Min(a, b) == IF a < b THEN a ELSE b
Max(a, b) == IF a > b THEN a ELSE b

\* b & 0x7F
Low7(b) == b % 128

\* The byte of the image at absolute offset o (o < image_len).
ImageByte(o) == IF o \in DOMAIN image_data THEN image_data[o] ELSE 0

\* image_data[o : o + n] / fd.seek(o); fd.read(n): clamped to the image's end.
ImageSlice(o, n) ==
  LET m == Max(0, Min(n, image_len - o))
  IN  [i \in 1..m |-> ImageByte(o + i - 1)]

\* bytes[i] of a Python bytes value (0-based); the caller checks i < Len.
B(bytes, i) == bytes[i + 1]

\* A slice that gives nothing when the stop overruns the end.
PySlice_unclamped(bytes, a, b) ==
  IF a >= b \/ b > Len(bytes) THEN <<>> ELSE SubSeq(bytes, a + 1, b)

\* data[a:b] of Python for a, b >= 0: both ends clamped to the length.
PySlice(bytes, a, b) ==
  LET lo == Min(a, Len(bytes))
      hi == Min(b, Len(bytes))
  IN  IF lo >= hi THEN <<>> ELSE SubSeq(bytes, lo + 1, hi)

\* Python's str.strip() on code points below 128.
Whitespace == {9, 10, 11, 12, 13, 28, 29, 30, 31, 32}

RECURSIVE LStrip(_)
LStrip(s) == IF s /= <<>> /\ Head(s) \in Whitespace THEN LStrip(Tail(s)) ELSE s

RECURSIVE RStrip(_)
RStrip(s) ==
  IF s /= <<>> /\ s[Len(s)] \in Whitespace
  THEN RStrip(SubSeq(s, 1, Len(s) - 1))
  ELSE s

Strip(s) == LStrip(RStrip(s))

---------------------------------------------------------------------------
(* Sector access *)

InRange(t, s) == t >= 0 /\ t < TRACKS /\ s >= 0 /\ s < SECTORS_PER_TRACK

SectorOffset(t, s) == (t * SECTORS_PER_TRACK + s) * SECTOR_SIZE

\* AppleDOS33Disk._get_sector: the exception it raises, "" when it returns.
_get_sector_error(t, s) ==
  IF t < 0 \/ t >= TRACKS THEN "ValueError: Invalid track"
  ELSE IF s < 0 \/ s >= SECTORS_PER_TRACK THEN "ValueError: Invalid sector"
  ELSE ""

\* AppleDOS33Disk._get_sector: the bytes it returns.
_get_sector(t, s) == ImageSlice(SectorOffset(t, s), SECTOR_SIZE)

\* AppleDOSFS._read_sector: no check; a read past the end is short or empty.
_read_sector(t, s) == ImageSlice((t * 16 + s) * 256, 256)

---------------------------------------------------------------------------
(* The directory *)

EmptyMap == [x \in {} |-> 0]

\* f[k] = v of a Python dict: inserts, or overwrites the value under k.
Put(f, k, v) == [x \in DOMAIN f \cup {k} |-> IF x = k THEN v ELSE f[x]]

\* AppleDOS33Disk.FILE_TYPES.get(code, '?')
FILE_TYPES(code) ==
  CASE code = 0 -> "T"
    [] code = 1 -> "I"
    [] code = 2 -> "A"
    [] code = 4 -> "B"
    [] code = 8 -> "S"
    [] code = 16 -> "R"
    [] code = 32 -> "a"
    [] code = 64 -> "b"
    [] OTHER -> "?"

\* dos33fs: ''.join(chr(b & 0x7F) for b in entry[3:33]).strip()
Filename_dos33(entry) ==
  LET raw == PySlice(entry, 3, 33)
  IN  Strip([k \in 1..Len(raw) |-> Low7(raw[k])])

\* main: "".join([chr(b & 0x7F) for b in entry[3:33] if b != 0]).strip()
NotNul(b) == b /= 0

Filename_main(entry) ==
  LET raw  == PySlice(entry, 3, 33)
      kept == SelectSeq(raw, NotNul)
  IN  Strip([k \in 1..Len(kept) |-> Low7(kept[k])])

\* dos33fs _read_catalog, lines 77-106: slots i..6 of one catalog sector.
\* The sector is always 256 bytes here (the image size was checked).
RECURSIVE Entries_dos33(_, _, _)
Entries_dos33(sector_data, i, fs) ==
  IF i >= 7 THEN fs
  ELSE
    LET offset   == 11 + (i * 35)
        entry    == PySlice(sector_data, offset, offset + 35)
        filename == Filename_dos33(entry)
        info     == [type      |-> FILE_TYPES(B(entry, 2)),
                     track     |-> B(entry, 0),
                     sector    |-> B(entry, 1),
                     length    |-> B(entry, 33) + B(entry, 34) * 256,
                     type_code |-> B(entry, 2)]
    IN  IF B(entry, 0) = 0 THEN Entries_dos33(sector_data, i + 1, fs)
        ELSE IF filename = <<>> THEN Entries_dos33(sector_data, i + 1, fs)
        ELSE Entries_dos33(sector_data, i + 1, Put(fs, filename, info))

\* main _parse_catalog, lines 47-68: the exception slots i..6 raise on a short
\* sector ("" when none): entry[0] needs one byte, entry[2] three, and
\* struct.unpack('<H', entry[33:35]) all 35.
RECURSIVE EntriesError_main(_, _)
EntriesError_main(sector_data, i) ==
  IF i >= 7 THEN ""
  ELSE
    LET offset == 11 + (i * 35)
        entry  == PySlice(sector_data, offset, offset + 35)
    IN  IF Len(entry) = 0 THEN "IndexError"
        ELSE IF B(entry, 0) = 0 \/ B(entry, 0) = 255
             THEN EntriesError_main(sector_data, i + 1)
        ELSE IF Len(entry) < 3 THEN "IndexError"
        ELSE IF Len(entry) < 35 THEN "struct.error"
        ELSE EntriesError_main(sector_data, i + 1)

\* main _parse_catalog, lines 47-68: slots i..6 of one catalog sector
\* (evaluated only when EntriesError_main is "").
RECURSIVE Entries_main(_, _, _)
Entries_main(sector_data, i, fs) ==
  IF i >= 7 THEN fs
  ELSE
    LET offset   == 11 + (i * 35)
        entry    == PySlice(sector_data, offset, offset + 35)
        ts_trk   == B(entry, 0)
        filename == Filename_main(entry)
        info     == [type        |-> Low7(B(entry, 2)),
                     len_sectors |-> B(entry, 33) + B(entry, 34) * 256,
                     ts_track    |-> ts_trk,
                     ts_sector   |-> B(entry, 1)]
    IN  IF ts_trk = 0 \/ ts_trk = 255 THEN Entries_main(sector_data, i + 1, fs)
        ELSE Entries_main(sector_data, i + 1, Put(fs, filename, info))

\* The first T/S-list address an entry of the directory records.
FirstTrack(info) == IF impl = "dos33fs" THEN info.track ELSE info.ts_track
FirstSector(info) == IF impl = "dos33fs" THEN info.sector ELSE info.ts_sector

---------------------------------------------------------------------------
(* Disk images the decoders are run on.  An image is written byte by byte  *)
(* in the on-disk layout; the decoders see only the bytes.                 *)

\* Absolute offset of byte i of sector (t, s).
At(t, s, i) == (t * 16 + s) * 256 + i

\* Bytes 1 and 2 of a sector: the link of a VTOC, catalog or T/S-list sector.
LinkBytes(t, s, next) == {<<At(t, s, 1), next[1]>>, <<At(t, s, 2), next[2]>>}

\* One 35-byte catalog entry in slot `slot` of catalog sector (t, s).
EntryBytes(t, s, slot, first, type, name, pad, length) ==
  LET base == At(t, s, 11 + 35 * slot)
  IN  {<<base, first[1]>>, <<base + 1, first[2]>>, <<base + 2, type>>}
      \cup {<<base + 2 + k, IF k <= Len(name) THEN name[k] ELSE pad>> : k \in 1..30}
      \cup {<<base + 33, length % 256>>, <<base + 34, length \div 256>>}

\* The (track, sector) pairs of T/S-list sector (t, s), from offset 12.
PairBytes(t, s, pairs) ==
  UNION {{<<At(t, s, 12 + 2 * (k - 1)), pairs[k][1]>>,
          <<At(t, s, 13 + 2 * (k - 1)), pairs[k][2]>>} : k \in 1..Len(pairs)}

\* A data sector with a known pattern: its first and last byte.
DataBytes(t, s, b) == {<<At(t, s, 0), b>>, <<At(t, s, 255), b + 1>>}

MkImage(S) == [o \in {p[1] : p \in S} |-> (CHOOSE p \in S : p[1] = o)[2]]

NameA == <<193>>          \* "A" with the high bit set
NameB == <<194>>          \* "B" with the high bit set

\* The layout: VTOC (17,0); catalog sectors (17,15) and (17,14); file A's
\* T/S list at (18,0), continued at (18,1); file B's T/S list at (20,0);
\* data sectors (19,0), (19,1), (19,2) and the image's last sector (34,15).
ImageOf(c) ==
  MkImage(
    LinkBytes(17, 0, c.vtoc)
    \cup LinkBytes(17, 15, c.n15)
    \cup EntryBytes(17, 15, 0, <<18, 0>>, 2, NameA, c.pad, 3)
    \cup EntryBytes(17, 15, 1, <<c.e1first, 0>>, 132, c.e1name, c.pad, 1)
    \cup (IF c.blank THEN EntryBytes(17, 15, 2, <<21, 0>>, 0, <<>>, c.pad, 0) ELSE {})
    \cup LinkBytes(17, 14, c.n14)
    \cup EntryBytes(17, 14, 0, <<c.e14first, 0>>, 1, NameA, c.pad, 1)
    \cup LinkBytes(18, 0, c.cn0) \cup PairBytes(18, 0, c.cp0)
    \cup LinkBytes(18, 1, c.cn1) \cup PairBytes(18, 1, c.cp1)
    \cup PairBytes(20, 0, <<<<19, 2>>>>)
    \cup DataBytes(19, 0, 208) \cup DataBytes(19, 1, 224) \cup DataBytes(19, 2, 240)
    \cup DataBytes(34, 15, 144)
    \cup {<<expected_size, 119>>})

Plain ==
  [vtoc |-> <<17, 15>>, n15 |-> <<0, 0>>, n14 |-> <<0, 0>>,
   e1first |-> 20, e1name |-> NameB, e14first |-> 20, pad |-> 160, blank |-> FALSE,
   cn0 |-> <<0, 0>>, cp0 |-> <<<<19, 0>>, <<19, 1>>>>,
   cn1 |-> <<0, 0>>, cp1 |-> <<>>, len |-> expected_size]

\* Catalog links: where the VTOC points and where the catalog sectors link to.
LinkConfigs ==
  {[Plain EXCEPT !.vtoc = v, !.n15 = a, !.n14 = b] :
     v \in {<<17, 15>>, <<17, 14>>, <<40, 0>>, <<17, 16>>, <<0, 0>>},
     a \in {<<0, 0>>, <<17, 14>>, <<17, 15>>, <<17, 30>>, <<35, 0>>},
     b \in {<<0, 0>>, <<17, 15>>}}

\* Catalog entries: unused (0), deleted (255) and valid slots, equal names,
\* NUL or space padding, an entry with a blank name.
EntryConfigs ==
  {[Plain EXCEPT !.n15 = <<17, 14>>, !.e1first = f, !.e1name = n,
                 !.e14first = g, !.pad = p, !.blank = k] :
     f \in {0, 255, 20}, n \in {NameA, NameB}, g \in {0, 255, 20},
     p \in {160, 0}, k \in {FALSE}}
  \cup {[Plain EXCEPT !.blank = TRUE, !.pad = p] : p \in {160, 0}}

\* File A's T/S list: end markers, continuation, cycles, addresses out of range.
ChainConfigs ==
  {[Plain EXCEPT !.cn0 = a, !.cp0 = p, !.cn1 = b, !.cp1 = q] :
     a \in {<<0, 0>>, <<0, 7>>, <<18, 1>>, <<18, 0>>, <<40, 0>>, <<18, 16>>},
     p \in {<<>>, <<<<19, 0>>>>, <<<<19, 0>>, <<19, 1>>>>,
            <<<<19, 0>>, <<0, 5>>, <<19, 1>>>>, <<<<19, 0>>, <<19, 20>>>>,
            <<<<19, 0>>, <<34, 15>>>>, <<<<36, 0>>>>},
     b \in {<<0, 0>>, <<18, 0>>},
     q \in {<<>>, <<<<19, 1>>>>}}

\* Image files one byte short and one byte long.
SizeConfigs ==
  {[Plain EXCEPT !.len = n, !.cp0 = <<<<19, 0>>, <<34, 15>>>>] :
     n \in {expected_size - 1, expected_size, expected_size + 1}}

Configs ==
  {c \in LinkConfigs : c.n15 = <<17, 14>> \/ c.n14 = <<0, 0>>}
  \cup EntryConfigs \cup SizeConfigs
  \cup {c \in ChainConfigs : c.cn0 = <<18, 1>> \/ (c.cn1 = <<0, 0>> /\ c.cp1 = <<>>)}

---------------------------------------------------------------------------
(* Replies *)

NoName == <<>>

Reply(op, status, name, fh, size, offset, val) ==
  [op |-> op, status |-> status, name |-> name, fh |-> fh, size |-> size,
   offset |-> offset, val |-> val]

NoReply == Reply("none", "", NoName, 0, 0, 0, <<>>)

NoRequest == [op |-> "none", name |-> NoName, size |-> 0, offset |-> 0]

\* The sectors a traversal has read, in the order of their first read.
Visit(seen, address) ==
  IF \E k \in 1..Len(seen) : seen[k] = address THEN seen ELSE Append(seen, address)

---------------------------------------------------------------------------
(* Construction: AppleDOS33FS.__init__ -> AppleDOS33Disk.__init__, and      *)
(* AppleDOSFS.__init__                                                     *)

Init ==
  /\ impl \in {"dos33fs", "main"}
  /\ \E c \in Configs :
       /\ image_len = c.len
       /\ image_data = ImageOf(c)
  /\ pc = "new"
  /\ track = 0
  /\ sector = 0
  /\ files = EmptyMap
  /\ req = NoRequest
  /\ ts_track = 0
  /\ ts_sector = 0
  /\ sectors = <<>>
  /\ data = <<>>
  /\ fd_counter = 0
  /\ open_files = EmptyMap
  /\ result = NoReply
  /\ walked = {}
  /\ catalog_visited = <<>>
  /\ tslist_visited = <<>>

\* dos33fs _load_image: the image passes the size check.
SizeOk == image_len = expected_size

\* dos33fs: _load_image, then _read_catalog up to its loop (lines 42-69).
Construct_dos33 ==
  /\ pc = "new"
  /\ impl = "dos33fs"
  /\ IF ~SizeOk
     THEN /\ pc' = "failed"
          /\ result' = Reply("init", "ValueError: Invalid disk image size",
                             NoName, 0, 0, 0, <<>>)
          /\ UNCHANGED <<track, sector>>
     ELSE /\ pc' = "catalog"
          /\ track' = CATALOG_TRACK
          /\ sector' = CATALOG_SECTOR
          /\ UNCHANGED result
  /\ UNCHANGED <<impl, image_len, image_data, files, req, ts_track, ts_sector,
                 sectors, data, fd_counter, open_files, walked, catalog_visited,
                 tslist_visited>>

\* main: __init__, then _parse_catalog up to its loop (lines 21-41).
Construct_main ==
  /\ pc = "new"
  /\ impl = "main"
  /\ LET vtoc == _read_sector(17, 0)
     IN  IF Len(vtoc) < 3
         THEN /\ pc' = "failed"
              /\ result' = Reply("init", "IndexError", NoName, 0, 0, 0, <<>>)
              /\ UNCHANGED <<track, sector>>
         ELSE /\ track' = B(vtoc, 1)
              /\ sector' = B(vtoc, 2)
              /\ pc' = IF B(vtoc, 1) /= 0 THEN "catalog" ELSE "ready"
              /\ UNCHANGED result
  /\ UNCHANGED <<impl, image_len, image_data, files, req, ts_track, ts_sector,
                 sectors, data, fd_counter, open_files, walked, catalog_visited,
                 tslist_visited>>

\* dos33fs _read_catalog: one iteration of `while track != 0` (lines 69-112).
CatalogStep_dos33 ==
  /\ pc = "catalog"
  /\ impl = "dos33fs"
  /\ IF _get_sector_error(track, sector) /= ""
     THEN /\ pc' = "failed"
          /\ result' = Reply("init", _get_sector_error(track, sector),
                             NoName, 0, 0, 0, <<>>)
          /\ UNCHANGED <<track, sector, files, catalog_visited>>
     ELSE LET sector_data == _get_sector(track, sector)
              next_track  == B(sector_data, 1)
              next_sector == B(sector_data, 2)
          IN  /\ files' = Entries_dos33(sector_data, 0, files)
              /\ catalog_visited' = Visit(catalog_visited, <<track, sector>>)
              /\ IF next_track = 0
                 THEN /\ pc' = "ready"
                      /\ UNCHANGED <<track, sector>>
                 ELSE /\ pc' = "catalog"
                      /\ track' = next_track
                      /\ sector' = next_sector
              /\ UNCHANGED result
  /\ UNCHANGED <<impl, image_len, image_data, req, ts_track, ts_sector,
                 sectors, data, fd_counter, open_files, walked, tslist_visited>>

\* main _parse_catalog: the exception one iteration raises, "" when none.
CatalogError_main(sector_data) ==
  IF Len(sector_data) < 3 THEN "IndexError" ELSE EntriesError_main(sector_data, 0)

\* main _parse_catalog: one iteration of `while current_track != 0` (lines 41-71).
CatalogStep_main ==
  /\ pc = "catalog"
  /\ impl = "main"
  /\ catalog_visited' = Visit(catalog_visited, <<track, sector>>)
  /\ LET sector_data == _read_sector(track, sector)
     IN  IF CatalogError_main(sector_data) /= ""
         THEN /\ pc' = "failed"
              /\ result' = Reply("init", CatalogError_main(sector_data),
                                 NoName, 0, 0, 0, <<>>)
              /\ UNCHANGED <<track, sector, files>>
         ELSE /\ files' = Entries_main(sector_data, 0, files)
              /\ track' = B(sector_data, 1)
              /\ sector' = B(sector_data, 2)
              /\ pc' = IF B(sector_data, 1) /= 0 THEN "catalog" ELSE "ready"
              /\ UNCHANGED result
  /\ UNCHANGED <<impl, image_len, image_data, req, ts_track, ts_sector,
                 sectors, data, fd_counter, open_files, walked, tslist_visited>>

---------------------------------------------------------------------------
(* T/S lists *)

\* A scan that skips a pair whose track is 0 and goes on (continue for break).
ScanPairs_continue(ts_data, i) ==
  LET n == Max(0, Min(122, (Len(ts_data) - 12) \div 2) - i)
      pairs == [k \in 1..n |-> <<B(ts_data, 12 + ((i + k - 1) * 2)),
                                 B(ts_data, 13 + ((i + k - 1) * 2))>>]
      listed(pair) == pair[1] /= 0
  IN  SelectSeq(pairs, listed)

\* Both decoders: the pairs of one T/S-list sector from pair i on, up to the
\* first pair whose track is 0 (for i in range(122): ... if t == 0: break).
RECURSIVE ScanPairs(_, _)
ScanPairs(ts_data, i) ==
  IF i >= 122 THEN <<>>
  ELSE
    LET pair_offset == 12 + (i * 2)
        t == B(ts_data, pair_offset)
        s == B(ts_data, pair_offset + 1)
    IN  IF t = 0 THEN <<>> ELSE <<<<t, s>>>> \o ScanPairs(ts_data, i + 1)

\* main _read_file_data: ts_list[offset] or ts_list[offset + 1] is past the end
\* of a short sector before the scan from pair i on ends (IndexError).
RECURSIVE ScanFails(_, _)
ScanFails(ts_list, i) ==
  IF i >= 122 THEN FALSE
  ELSE
    LET offset == 12 + (i * 2)
    IN  IF Len(ts_list) <= offset + 1 THEN TRUE
        ELSE IF B(ts_list, offset) = 0 THEN FALSE
        ELSE ScanFails(ts_list, i + 1)

\* dos33fs read_file, lines 161-164: the first exception of the data reads.
RECURSIVE DataError_dos33(_)
DataError_dos33(ts) ==
  IF ts = <<>> THEN ""
  ELSE IF _get_sector_error(Head(ts)[1], Head(ts)[2]) /= ""
       THEN _get_sector_error(Head(ts)[1], Head(ts)[2])
  ELSE DataError_dos33(Tail(ts))

\* dos33fs read_file, lines 161-164: data += self._get_sector(t, s)
RECURSIVE Assemble_dos33(_)
Assemble_dos33(ts) ==
  IF ts = <<>> THEN <<>>
  ELSE _get_sector(Head(ts)[1], Head(ts)[2]) \o Assemble_dos33(Tail(ts))

\* main _read_file_data, line 101: data.extend(self._read_sector(track, sector))
RECURSIVE Assemble_main(_)
Assemble_main(ts) ==
  IF ts = <<>> THEN <<>>
  ELSE _read_sector(Head(ts)[1], Head(ts)[2]) \o Assemble_main(Tail(ts))

---------------------------------------------------------------------------
(* Requests of the FUSE runtime (nothreads=True: one at a time) *)

\* File names a request may carry: every name of the directory and an absent one.
RequestNames == DOMAIN files \cup {<<90>>}
ReadSizes == {1, 512}
ReadOffsets == {0, 255, 512}
Handles == 1..MaxFd

\* AppleDOS33FS.open up to the loop of _read_tslist (lines 221-233, 149-159, 116-120).
\* The first track of a directory entry is never 0, so the loop is entered.
Open(filename, write) ==
  /\ pc = "ready"
  /\ impl = "dos33fs"
  /\ fd_counter < MaxFd
  /\ IF filename \notin DOMAIN files
     THEN /\ result' = Reply("open", "ENOENT", filename, 0, 0, 0, <<>>)
          /\ UNCHANGED <<pc, req, ts_track, ts_sector, sectors, walked>>
     ELSE IF write
     THEN /\ result' = Reply("open", "EROFS", filename, 0, 0, 0, <<>>)
          /\ UNCHANGED <<pc, req, ts_track, ts_sector, sectors, walked>>
     ELSE /\ pc' = "tslist"
          /\ req' = [op |-> "open", name |-> filename, size |-> 0, offset |-> 0]
          /\ ts_track' = files[filename].track
          /\ ts_sector' = files[filename].sector
          /\ sectors' = <<>>
          /\ walked' = walked \cup {filename}
          /\ result' = NoReply
  /\ UNCHANGED <<impl, image_len, image_data, track, sector, files, data,
                 fd_counter, open_files, catalog_visited, tslist_visited>>

\* The request in progress ends with an exception: nothing but the reply changes.
Fails(status) ==
  /\ pc' = "ready"
  /\ result' = Reply(req.op, status, req.name, 0, req.size, req.offset, <<>>)
  /\ req' = NoRequest
  /\ sectors' = <<>>
  /\ data' = <<>>
  /\ tslist_visited' = <<>>
  /\ UNCHANGED <<ts_track, ts_sector, fd_counter, open_files>>

\* dos33fs: the handle open() issues once read_file has returned file_data
\* (lines 233-237).
IssueHandle(file_data) ==
  /\ fd_counter' = fd_counter + 1
  /\ open_files' = Put(open_files, fd_counter + 1, file_data)
  /\ result' = Reply("open", "ok", req.name, fd_counter + 1, 0, 0, <<>>)

\* dos33fs _read_tslist: one iteration of `while track != 0` (lines 120-145);
\* the iteration that leaves the loop also runs the rest of read_file and open.
TsListStep_dos33 ==
  /\ pc = "tslist"
  /\ impl = "dos33fs"
  /\ IF _get_sector_error(ts_track, ts_sector) /= ""
     THEN Fails(_get_sector_error(ts_track, ts_sector))
     ELSE LET ts_data     == _get_sector(ts_track, ts_sector)
              next_track  == B(ts_data, 1)
              next_sector == B(ts_data, 2)
              found       == sectors \o ScanPairs(ts_data, 0)
          IN  IF Len(found) > MaxSectors THEN Fails("MemoryError")
              ELSE IF next_track /= 0
              THEN /\ ts_track' = next_track
                   /\ ts_sector' = next_sector
                   /\ sectors' = found
                   /\ tslist_visited' = Visit(tslist_visited, <<ts_track, ts_sector>>)
                   /\ UNCHANGED <<pc, req, data, fd_counter, open_files, result>>
              ELSE IF DataError_dos33(found) /= ""
              THEN Fails(DataError_dos33(found))
              ELSE /\ IssueHandle(Assemble_dos33(found))
                   /\ pc' = "ready"
                   /\ req' = NoRequest
                   /\ sectors' = <<>>
                   /\ tslist_visited' = <<>>
                   /\ UNCHANGED <<ts_track, ts_sector, data>>
  /\ UNCHANGED <<impl, image_len, image_data, track, sector, files, walked,
                 catalog_visited>>

\* AppleDOS33FS.read (lines 239-245)
Read(fh, size, offset) ==
  /\ pc = "ready"
  /\ impl = "dos33fs"
  /\ IF fh \notin DOMAIN open_files
     THEN result' = Reply("read", "EBADF", NoName, fh, size, offset, <<>>)
     ELSE result' = Reply("read", "ok", NoName, fh, size, offset,
                          PySlice(open_files[fh], offset, offset + size))
  /\ UNCHANGED <<impl, image_len, image_data, pc, track, sector, files, req,
                 ts_track, ts_sector, sectors, data, fd_counter, open_files, walked,
                 catalog_visited, tslist_visited>>

\* AppleDOS33FS.release (lines 247-251)
Release(fh) ==
  /\ pc = "ready"
  /\ impl = "dos33fs"
  /\ open_files' = [h \in DOMAIN open_files \ {fh} |-> open_files[h]]
  /\ result' = Reply("release", "ok", NoName, fh, 0, 0, <<>>)
  /\ UNCHANGED <<impl, image_len, image_data, pc, track, sector, files, req,
                 ts_track, ts_sector, sectors, data, fd_counter, walked,
                 catalog_visited, tslist_visited>>

\* AppleDOSFS.read up to the loop of _read_file_data (lines 136-143, 73-83).
Read_main(filename, length, offset) ==
  /\ pc = "ready"
  /\ impl = "main"
  /\ IF filename \notin DOMAIN files
     THEN /\ result' = Reply("read", "ENOENT", filename, 0, length, offset, <<>>)
          /\ UNCHANGED <<pc, req, ts_track, ts_sector, data, walked>>
     ELSE /\ pc' = "tslist"
          /\ req' = [op |-> "read", name |-> filename, size |-> length,
                     offset |-> offset]
          /\ ts_track' = files[filename].ts_track
          /\ ts_sector' = files[filename].ts_sector
          /\ data' = <<>>
          /\ walked' = walked \cup {filename}
          /\ result' = NoReply
  /\ UNCHANGED <<impl, image_len, image_data, track, sector, files, sectors,
                 fd_counter, open_files, catalog_visited, tslist_visited>>

\* main _read_file_data: one iteration of `while ts_track != 0` (lines 83-104);
\* the iteration that leaves the loop also returns the slice of read().
TsListStep_main ==
  /\ pc = "tslist"
  /\ impl = "main"
  /\ LET ts_list == _read_sector(ts_track, ts_sector)
     IN  IF ScanFails(ts_list, 0) THEN Fails("IndexError")
         ELSE LET grown == data \o Assemble_main(ScanPairs(ts_list, 0))
              IN  IF Len(grown) > MaxSectors * 256 THEN Fails("MemoryError")
                  ELSE IF B(ts_list, 1) /= 0
                  THEN /\ ts_track' = B(ts_list, 1)
                       /\ ts_sector' = B(ts_list, 2)
                       /\ data' = grown
                       /\ tslist_visited' = Visit(tslist_visited, <<ts_track, ts_sector>>)
                       /\ UNCHANGED <<pc, req, sectors, fd_counter, open_files,
                                      result>>
                  ELSE /\ data' = grown
                       /\ result' = Reply("read", "ok", req.name, 0, req.size,
                                          req.offset,
                                          PySlice(grown, req.offset,
                                                  req.offset + req.size))
                       /\ pc' = "ready"
                       /\ req' = NoRequest
                       /\ tslist_visited' = <<>>
                       /\ UNCHANGED <<ts_track, ts_sector, sectors, fd_counter,
                                      open_files>>
  /\ UNCHANGED <<impl, image_len, image_data, track, sector, files, walked,
                 catalog_visited>>

Next ==
  \/ Construct_dos33
  \/ Construct_main
  \/ CatalogStep_dos33
  \/ CatalogStep_main
  \/ \E filename \in RequestNames, write \in BOOLEAN : Open(filename, write)
  \/ TsListStep_dos33
  \/ \E fh \in Handles, size \in ReadSizes, offset \in ReadOffsets :
       Read(fh, size, offset)
  \/ \E fh \in Handles : Release(fh)
  \/ \E filename \in RequestNames, length \in ReadSizes, offset \in ReadOffsets :
       Read_main(filename, length, offset)
  \/ TsListStep_main

Spec == Init /\ [][Next]_vars

---------------------------------------------------------------------------
(* What the specification says of an image, read off the image bytes        *)
(* without the decoders' own parsing.                                       *)

Range(seq) == {seq[k] : k \in 1..Len(seq)}

\* A sector address within the declared ranges whose 256 bytes the image holds.
InImage(a) == InRange(a[1], a[2]) /\ At(a[1], a[2], 255) < image_len

\* The 256 bytes of sector a.
SectorBytes(a) == [i \in 1..256 |-> ImageByte(At(a[1], a[2], i - 1))]

\* The "next" address a VTOC, catalog or chain sector stores in bytes 1 and 2.
NextOf(a) == <<ImageByte(At(a[1], a[2], 1)), ImageByte(At(a[1], a[2], 2))>>

\* The data addresses chain sector a lists from pair k on: up to 122 pairs from
\* offset 12, ended by the first pair whose track is 0.
RECURSIVE ListedPairs(_, _)
ListedPairs(a, k) ==
  IF k >= 122 \/ ImageByte(At(a[1], a[2], 12 + 2 * k)) = 0 THEN <<>>
  ELSE <<<<ImageByte(At(a[1], a[2], 12 + 2 * k)),
           ImageByte(At(a[1], a[2], 13 + 2 * k))>>>> \o ListedPairs(a, k + 1)

\* The chain that starts at address a: its chain sectors in order, and whether it
\* is well formed (ends at a next track of 0 without leaving the ranges and
\* without coming back to a sector it has been at).
RECURSIVE ChainSectors(_, _)
ChainSectors(a, seen) ==
  IF a[1] = 0 THEN [ok |-> TRUE, at |-> seen]
  ELSE IF ~InImage(a) \/ a \in Range(seen) THEN [ok |-> FALSE, at |-> seen]
  ELSE ChainSectors(NextOf(a), Append(seen, a))

RECURSIVE DataAddresses(_)
DataAddresses(chain) ==
  IF chain = <<>> THEN <<>>
  ELSE ListedPairs(Head(chain), 0) \o DataAddresses(Tail(chain))

RECURSIVE Concatenation(_)
Concatenation(addresses) ==
  IF addresses = <<>> THEN <<>>
  ELSE SectorBytes(Head(addresses)) \o Concatenation(Tail(addresses))

\* The file named n of the directory has a well-formed chain: acyclic, and every
\* chain and data address it holds is a sector of the image.
WellFormed(n) ==
  LET c == ChainSectors(<<FirstTrack(files[n]), FirstSector(files[n])>>, <<>>)
  IN  c.ok /\ \A a \in Range(DataAddresses(c.at)) : InImage(a)

\* The content the specification gives file n.
ContentOf(n) ==
  Concatenation(DataAddresses(
    ChainSectors(<<FirstTrack(files[n]), FirstSector(files[n])>>, <<>>).at))

\* The bytes of `content` in [offset, min(offset + length, size)).
Clamped(content, offset, length) ==
  LET stop == Min(offset + length, Len(content))
  IN  [i \in 1..Max(0, stop - offset) |-> content[offset + i]]

\* The catalog entry in slot `slot` of catalog sector a, as the format lays it out.
SlotByte(a, slot, i) == ImageByte(At(a[1], a[2], 11 + 35 * slot + i))

\* A slot holds a valid entry: its first byte is neither 0 nor 0xFF.
ValidSlot(a, slot) == SlotByte(a, slot, 0) /= 0 /\ SlotByte(a, slot, 0) /= 255

\* The entries' places in catalog traversal order: sector chain order, then
\* slot order 0..6.
Places ==
  [k \in 1..(7 * Len(catalog_visited)) |->
     <<catalog_visited[((k - 1) \div 7) + 1], (k - 1) % 7>>]

\* The name the decoder at hand gives the entry at a place.
PlaceName(pl) ==
  LET entry == [i \in 1..35 |-> SlotByte(pl[1], pl[2], i - 1)]
  IN  IF impl = "dos33fs" THEN Filename_dos33(entry) ELSE Filename_main(entry)

\* First chain address, type (low 7 bits) and sector count of the entry at a place.
PlaceMeta(pl) ==
  <<SlotByte(pl[1], pl[2], 0), SlotByte(pl[1], pl[2], 1),
    Low7(SlotByte(pl[1], pl[2], 2)),
    SlotByte(pl[1], pl[2], 33) + 256 * SlotByte(pl[1], pl[2], 34)>>

\* The same of a directory entry.
InfoMeta(info) ==
  IF impl = "dos33fs"
  THEN <<info.track, info.sector, Low7(info.type_code), info.length>>
  ELSE <<info.ts_track, info.ts_sector, info.type, info.len_sectors>>

\* The exceptions of _get_sector that stand for InvalidAddress.
InvalidAddress == {"ValueError: Invalid track", "ValueError: Invalid sector"}

\* A call on a file ended with an exception or an error code.
Failed(r) == r.op \in {"open", "read"} /\ r.status \notin {"ok", ""}

---------------------------------------------------------------------------
(* Claims *)

\* C1: a traversal stops, with CorruptCatalog or CorruptChain, when a "next" link
\* leads back to a sector it has already visited: the catalog traversal and the
\* chain traversal are never about to read a sector they have read before.
C1_RevisitStopsTraversal ==
  /\ pc = "catalog" => <<track, sector>> \notin Range(catalog_visited)
  /\ pc = "tslist" => <<ts_track, ts_sector>> \notin Range(tslist_visited)

\* C2: no address outside the declared ranges is dereferenced: a step that is to
\* read a catalog or chain sector at an address with track >= 35 or sector >= 16
\* ends in InvalidAddress, and a request does not complete with bytes when the
\* chain sector it reads last lists a data address out of range.
C2_OutOfRangeNeverDereferenced ==
  [][/\ (pc = "catalog" /\ ~InRange(track, sector))
          => (pc' = "failed" /\ result'.status \in InvalidAddress)
     /\ (pc = "tslist" /\ ~InRange(ts_track, ts_sector))
          => (pc' = "ready" /\ result'.status \in InvalidAddress)
     /\ (/\ pc = "tslist"
         /\ InRange(ts_track, ts_sector)
         /\ \E a \in Range(ListedPairs(<<ts_track, ts_sector>>, 0)) :
              ~InRange(a[1], a[2]))
          => ~(pc' = "ready" /\ result'.status = "ok")]_vars

\* C3: an image whose length is not 143,360 bytes fails construction with the
\* invalid-image-size error before any catalog sector is read and yields no
\* decoder; an image of exactly 143,360 bytes passes the size check.
C3_WrongSizeFailsConstruction ==
  /\ image_len /= 143360 =>
       /\ pc \in {"new", "failed"}
       /\ catalog_visited = <<>>
       /\ pc = "failed" => result.status = "ValueError: Invalid disk image size"
  /\ image_len = 143360 => result.status /= "ValueError: Invalid disk image size"

\* C4: the directory holds no file whose first-chain track is 0 or 0xFF.
C4_NoSkippedEntryInDirectory ==
  \A n \in DOMAIN files : FirstTrack(files[n]) \notin {0, 255}

\* The places of the valid entries met by the catalog traversal.
ValidPlaces == {k \in DOMAIN Places : ValidSlot(Places[k][1], Places[k][2])}

\* The last place among a non-empty set of places.
LastOf(ks) == CHOOSE k \in ks : \A j \in ks : j <= k

\* C5: when two or more valid catalog entries decode to the same name, the loaded
\* directory holds that name with the metadata (first chain address, type, sector
\* count) of the entry met last in traversal order.
C5_LastEntryWins ==
  pc = "ready" =>
    \A k \in ValidPlaces :
      LET same == {j \in ValidPlaces : PlaceName(Places[j]) = PlaceName(Places[k])}
      IN  Cardinality(same) >= 2 =>
            /\ PlaceName(Places[k]) \in DOMAIN files
            /\ InfoMeta(files[PlaceName(Places[k])]) = PlaceMeta(Places[LastOf(same)])

\* C8: the chain walk of a name is performed at most once: a request for a name
\* whose chain has been walked before starts no walk.
C8_ChainWalkedAtMostOnce ==
  [][(pc = "ready" /\ pc' = "tslist") => req'.name \notin walked]_vars

\* The catalog address the volume descriptor (track 17, sector 0) stores.
StoredStart == NextOf(<<17, 0>>)

\* C9: catalog traversal starts at the stored address when it is in range and at
\* the default (track 17, sector 15) when it is not, and an out-of-range stored
\* address alone does not make loading fail.
C9_TraversalStart ==
  /\ (pc = "catalog" /\ catalog_visited = <<>>) =>
       <<track, sector>> = IF InRange(StoredStart[1], StoredStart[2])
                           THEN StoredStart ELSE <<17, 15>>
  /\ (pc = "failed" /\ image_len = 143360 /\ ~InRange(StoredStart[1], StoredStart[2]))
       => catalog_visited /= <<>>

\* The chain sectors of file n, as the specification walks them.
ChainOf(n) == ChainSectors(<<FirstTrack(files[n]), FirstSector(files[n])>>, <<>>)

\* C6: for a file with a well-formed chain the assembled content is the
\* concatenation, in order, of the data sectors its chain sectors list (each
\* sector's list ended by its first pair with track 0, the walk ended by a next
\* track of 0); read(name, 0, 512) of a two-sector file is the two sectors.
C6_ContentIsConcatenation ==
  /\ (/\ impl = "dos33fs" /\ pc = "ready"
      /\ result.op = "open" /\ result.status /= "EROFS"
      /\ result.name \in DOMAIN files /\ WellFormed(result.name))
       => /\ result.status = "ok"
          /\ open_files[result.fh] = ContentOf(result.name)
  /\ (/\ impl = "main" /\ pc = "ready"
      /\ result.op = "read"
      /\ result.name \in DOMAIN files /\ WellFormed(result.name))
       => /\ result.status = "ok"
          /\ data = ContentOf(result.name)
          /\ (result.offset = 0 /\ result.size = 512 /\ Len(data) = 512)
               => result.val = ContentOf(result.name)

\* C6 happens: a file whose chain has two chain sectors, the first listing two
\* data sectors and the second one, has been assembled to its 768 bytes.
C6_Witness ==
  /\ pc = "ready"
  /\ result.op \in {"open", "read"}
  /\ result.status = "ok"
  /\ result.name \in DOMAIN files
  /\ WellFormed(result.name)
  /\ Len(ChainOf(result.name).at) = 2
  /\ Len(ListedPairs(ChainOf(result.name).at[1], 0)) = 2
  /\ Len(ContentOf(result.name)) = 768
  /\ IF impl = "dos33fs" THEN Len(open_files[result.fh]) = 768 ELSE Len(data) = 768

\* The content a completed read was served from.
ServedContent == IF impl = "dos33fs" THEN open_files[result.fh] ELSE data

\* C7: read(name, offset, length) on an existing file does not fail because of
\* the requested range and returns exactly the bytes of the assembled content in
\* [offset, min(offset + length, size)).
C7_ReadClampsToContent ==
  (pc = "ready" /\ result.op = "read") =>
    /\ impl = "dos33fs" => (result.status = "ok" <=> result.fh \in DOMAIN open_files)
    /\ (impl = "main" /\ result.name \in DOMAIN files /\ WellFormed(result.name))
         => result.status = "ok"
    /\ result.status = "ok"
         => result.val = Clamped(ServedContent, result.offset, result.size)

\* C7 happens: a read at or beyond the end of a non-empty file returned nothing.
C7_Witness ==
  /\ pc = "ready"
  /\ result.op = "read"
  /\ result.status = "ok"
  /\ Len(ServedContent) > 0
  /\ result.offset >= Len(ServedContent)
  /\ result.val = <<>>

\* A failed open or read leaves the directory, the handle counter and the
\* open-handle table as they were, so it issues no handle.
FailureLeavesStateUnchanged ==
  [][Failed(result') => UNCHANGED <<files, fd_counter, open_files>>]_vars

\* A file with a well-formed chain opened or read after another file's chain walk
\* went wrong is served its full content.
OtherFilesStillServed ==
  [](( /\ pc = "ready"
       /\ result.op \in {"open", "read"}
       /\ result.status \in {"ok", "ValueError: Invalid track",
                             "ValueError: Invalid sector", "IndexError",
                             "MemoryError"}
       /\ result.name \in DOMAIN files
       /\ WellFormed(result.name)
       /\ \E f \in walked \ {result.name} : ~WellFormed(f))
        => /\ result.status = "ok"
           /\ IF impl = "dos33fs"
              THEN open_files[result.fh] = ContentOf(result.name)
              ELSE data = ContentOf(result.name))

\* A chain walk that comes to a corrupt link fails the request there: it does not
\* go on into a chain sector it has already read.
CorruptLinkFailsRequest ==
  [][(pc = "tslist" /\ pc' = "tslist")
       => <<ts_track', ts_sector'>> \notin Range(tslist_visited')]_vars

\* C10: a per-file failure is local to its request: when the open or read of f
\* fails (absent name, or a chain walk that hits an out-of-range or corrupt link)
\* the directory, the handle counter and the open-handle table are unchanged, no
\* handle is issued, and a later open and read of a well-formed g returns g's
\* full content.
C10_FailureIsLocal ==
  /\ FailureLeavesStateUnchanged
  /\ OtherFilesStillServed
  /\ CorruptLinkFailsRequest

=============================================================================
